---- MODULE Spec2Model ----
(***************************************************************************)
(* Binomial (Cox-Ross-Rubinstein) option pricing engine of src/app.js:     *)
(* validateInputs, riskNeutralProb, binomialOptionPricing,                 *)
(* priceWithConvergence, impliedVolatility and greeks.                     *)
(*                                                                         *)
(* Numbers.  A JavaScript number x is modelled by the integer              *)
(* floor(x * Scale), Scale = 10^8 (fixed point, eight decimals), so that   *)
(* the program's own constants 1e-8, 1e-6 and 1e-4 are exact.  Arithmetic  *)
(* keeps the order of the operations of the source and rounds every        *)
(* product and quotient once, toward zero.  Math.exp and Math.sqrt are     *)
(* computed (Taylor series, Newton iteration), not assumed.  NaN and the   *)
(* infinities are outside the model: every input is a finite number.       *)
(***************************************************************************)
EXTENDS Integers, Sequences, FiniteSets, TLC

(***************************************************************************)
(* Fixed-point arithmetic                                                  *)
(***************************************************************************)

\* One unit of the model's numbers is 10^-8.
Scale == 10000 * 10000

\* Largest whole part a quotient may have before it saturates (the model's
\* integers are 32 bits wide: 21 * Scale < 2^31).
MaxWhole == 20

\* The saturated quotient.
MaxFix == MaxWhole * Scale

Abs(x) == IF x < 0 THEN -x ELSE x

Max(a, b) == IF a >= b THEN a ELSE b

Sign(x) == IF x < 0 THEN -1 ELSE 1

\* <<q, r>> with a * b = q * c + r and 0 <= r < c, for a, b >= 0 and c > 0,
\* without ever forming the product a * b.
RECURSIVE MulDivQR(_, _, _)
MulDivQR(a, b, c) ==
    IF b = 0 THEN <<0, 0>>
    ELSE LET h == MulDivQR(a, b \div 2, c)
             q == 2 * h[1] + (IF b % 2 = 1 THEN a \div c ELSE 0)
             r == 2 * h[2] + (IF b % 2 = 1 THEN a % c ELSE 0)
         IN  <<q + (r \div c), r % c>>

\* floor(a * b / c) for a, b >= 0, c > 0.
MulDiv(a, b, c) == MulDivQR(a, b, c)[1]

\* Half of the digits of a number: Scale = Limb * Limb.
Limb == 10000

\* floor(a * b / Scale) for a, b >= 0, by the halves of a and b (no partial
\* product leaves 32 bits while the result is below 2^31).
MulLimbs(a, b) ==
    LET a1 == a \div Limb
        a0 == a % Limb
        b1 == b \div Limb
        b0 == b % Limb
        hi == a1 * b0
        lo == a0 * b1
    IN  a1 * b1 + (hi \div Limb) + (lo \div Limb)
          + (((hi % Limb) + (lo % Limb) + ((a0 * b0) \div Limb)) \div Limb)

\* x * y on numbers (rounded toward zero).
Mul(x, y) == Sign(x) * Sign(y) * MulLimbs(Abs(x), Abs(y))

\* x / y on numbers, y # 0 (rounded toward zero; a quotient whose size is
\* MaxWhole or more saturates at MaxFix).
Div(x, y) ==
    IF Abs(x) \div Abs(y) >= MaxWhole
    THEN Sign(x) * Sign(y) * MaxFix
    ELSE Sign(x) * Sign(y) * MulDiv(Abs(x), Scale, Abs(y))

\* The number of an integer literal.
Num(k) == k * Scale

\* Number.isInteger
IsInteger(x) == x % Scale = 0

\* x ** k for an integer k >= 0, by k multiplications.
RECURSIVE Pow(_, _)
Pow(x, k) == IF k = 0 THEN Scale ELSE Mul(Pow(x, k - 1), x)

\* Sum of the Taylor series of exp at x >= 0 from the k-th term on; term is
\* x^k / k!.
RECURSIVE ExpSeries(_, _, _)
ExpSeries(x, k, term) ==
    IF term = 0 THEN 0
    ELSE term + ExpSeries(x, k + 1, MulLimbs(term, x) \div (k + 1))

\* Math.exp
Exp(x) == IF x >= 0 THEN ExpSeries(x, 0, Scale)
                    ELSE Div(Scale, ExpSeries(-x, 0, Scale))

\* Newton's iteration for the integer square root of x * Scale, from a guess
\* y that is not below it.
RECURSIVE SqrtIter(_, _)
SqrtIter(x, y) ==
    LET z == (y + MulDiv(x, Scale, y)) \div 2
    IN  IF z >= y THEN y ELSE SqrtIter(x, z)

\* Math.sqrt, x >= 0
Sqrt(x) == IF x = 0 THEN 0 ELSE SqrtIter(x, Max(x, Scale))

(***************************************************************************)
(* Results: a call returns a value or throws an Error with a message       *)
(***************************************************************************)

None == "none"

Ok(v) == [err |-> None, val |-> v]

Throw(msg) == [err |-> msg, val |-> 0]

ErrSK == "S and K must be positive."
ErrT == "T must be positive."
ErrN == "n must be a positive integer."
ErrSigma == "sigma must be non-negative."
ErrQ == "q must be non-negative."
ErrOption == "Option type invalid."
ErrExercise == "Exercise type invalid."
ErrDegenerate == "u and d are equal; increase n or sigma."
ErrProb == "Risk-neutral probability out of bounds"
ErrTarget == "market_price must be positive."
ErrBracket == "Target price not bracketed by vol_low and vol_high."

\* The messages of validateInputs (the spec's InvalidParameter).
InvalidParameter == {ErrSK, ErrT, ErrN, ErrSigma, ErrQ, ErrOption, ErrExercise}

(***************************************************************************)
(* validateInputs, riskNeutralProb, binomialOptionPricing                  *)
(***************************************************************************)

\* validateInputs with the dividend-yield check ahead of the volatility check.
validateInputsYieldFirst(P) ==
    IF ~(P.S > 0 /\ P.K > 0) THEN ErrSK
    ELSE IF ~(P.T > 0) THEN ErrT
    ELSE IF ~(P.n > 0 /\ IsInteger(P.n)) THEN ErrN
    ELSE IF P.q < 0 THEN ErrQ
    ELSE IF P.sigma < 0 THEN ErrSigma
    ELSE IF ~(P.option_type \in {"call", "put"}) THEN ErrOption
    ELSE IF ~(P.exercise_type \in {"european", "american"}) THEN ErrExercise
    ELSE None

\* The message validateInputs throws on P, or None when it returns.
validateInputs(P) ==
    IF ~(P.S > 0 /\ P.K > 0) THEN ErrSK
    ELSE IF ~(P.T > 0) THEN ErrT
    ELSE IF ~(P.n > 0 /\ IsInteger(P.n)) THEN ErrN
    ELSE IF P.sigma < 0 THEN ErrSigma
    ELSE IF P.q < 0 THEN ErrQ
    ELSE IF ~(P.option_type \in {"call", "put"}) THEN ErrOption
    ELSE IF ~(P.exercise_type \in {"european", "american"}) THEN ErrExercise
    ELSE None

riskNeutralProb(u, d, r, q, dt) ==
    LET p == Div(Exp(Mul(r - q, dt)) - d, u - d)
    IN  IF p < 0 \/ p > Scale THEN Throw(ErrProb) ELSE Ok(p)

\* optionType === "call" ? Math.max(0, price - K) : Math.max(0, K - price)
payoff(optionType, price, K) ==
    IF optionType = "call" THEN Max(0, price - K) ELSE Max(0, K - price)

\* S * (u ** j) * (d ** (m - j)): the asset price after j up-moves in m steps.
assetPrice(S, u, d, m, j) == Mul(Mul(S, Pow(u, j)), Pow(d, m - j))

\* Lines 40-45: the tree of a validated parameter set, or the error thrown.
\* count is n as a loop bound.
buildTree(S, K, T, r, sigma, n, optionType, exerciseType, q) ==
    LET dt == Div(T, n)
        discount == Exp(-Mul(r, dt))
        u == IF sigma > 0 THEN Exp(Mul(sigma, Sqrt(dt))) ELSE Scale
        d == Div(Scale, u)
        rp == riskNeutralProb(u, d, r, q, dt)
    IN  IF u = d THEN Throw(ErrDegenerate)
        ELSE IF rp.err # None THEN rp
        ELSE Ok([S |-> S, K |-> K, count |-> n \div Scale, discount |-> discount,
                 u |-> u, d |-> d, p |-> rp.val,
                 optionType |-> optionType, exerciseType |-> exerciseType])

\* Lines 47-50: the terminal layer.
terminalValues(c) ==
    [jj \in 0..c.count |->
        payoff(c.optionType, assetPrice(c.S, c.u, c.d, c.count, jj), c.K)]

\* Line 54.
holdValue(c, vals, jj) ==
    Mul(c.discount, Mul(c.p, vals[jj + 1]) + Mul(Scale - c.p, vals[jj]))

\* nodeValue exercising at every node of an american option.
nodeValueAlwaysExercise(c, vals, ii, jj) ==
    IF c.exerciseType = "american"
    THEN payoff(c.optionType, assetPrice(c.S, c.u, c.d, ii, jj), c.K)
    ELSE holdValue(c, vals, jj)

\* Lines 55-61: the value of node (ii, jj) given the layer below in vals.
nodeValue(c, vals, ii, jj) ==
    LET hold == holdValue(c, vals, jj)
    IN  IF c.exerciseType = "american"
        THEN Max(hold, payoff(c.optionType, assetPrice(c.S, c.u, c.d, ii, jj), c.K))
        ELSE hold

\* storeNode writing one slot too far.
storeNodeShifted(c, vals, ii, jj) ==
    [vals EXCEPT ![jj + 1] = nodeValue(c, vals, ii, jj)]

\* optionValues[j] = ...: the store of lines 58 and 60.
storeNode(c, vals, ii, jj) == [vals EXCEPT ![jj] = nodeValue(c, vals, ii, jj)]

\* Lines 53-62 from j = jj on.
RECURSIVE innerLoop(_, _, _, _)
innerLoop(c, vals, ii, jj) ==
    IF jj <= ii THEN innerLoop(c, storeNode(c, vals, ii, jj), ii, jj + 1) ELSE vals

\* Lines 52-63 from i = ii on.
RECURSIVE outerLoop(_, _, _)
outerLoop(c, vals, ii) ==
    IF ii >= 0 THEN outerLoop(c, innerLoop(c, vals, ii, 0), ii - 1) ELSE vals

binomialOptionPricing(S, K, T, r, sigma, n, optionType, exerciseType, q) ==
    LET v == validateInputs([S |-> S, K |-> K, T |-> T, r |-> r, sigma |-> sigma,
                             q |-> q, n |-> n, option_type |-> optionType,
                             exercise_type |-> exerciseType])
        t == buildTree(S, K, T, r, sigma, n, optionType, exerciseType, q)
    IN  IF v # None THEN Throw(v)
        ELSE IF t.err # None THEN t
        ELSE Ok(outerLoop(t.val, terminalValues(t.val), t.val.count - 1)[0])

\* The pricer on a parameter record.
priceOf(P) ==
    binomialOptionPricing(P.S, P.K, P.T, P.r, P.sigma, P.n,
                          P.option_type, P.exercise_type, P.q)

(***************************************************************************)
(* priceWithConvergence                                                    *)
(***************************************************************************)

\* Lines 69-79 and 83-93: the pricer at step count nn.
convPrice(P, nn) ==
    binomialOptionPricing(P.S, P.K, P.T, P.r, P.sigma, nn,
                          P.option_type, P.exercise_type, P.q)

\* The convergence test with a strict comparison.
convergedStrict(curr, prv, tol) == Abs(curr - prv) < tol

\* Line 95: Math.abs(curr - prev) <= tol
converged(curr, prv, tol) == Abs(curr - prv) <= tol

\* The increment by one step count, whatever step is.
nextNByOne(nn, step) == nn + Scale

\* Lines 81 and 99: n += step
nextN(nn, step) == nn + step

\* The convergence return carrying the previous price.
convergedReturnPrev(curr, prv, nn, trl) == [price |-> prv, n |-> nn, trail |-> trl]

\* Line 96: return { price: curr, n, trail }
convergedReturn(curr, prv, nn, trl) == [price |-> curr, n |-> nn, trail |-> trl]

\* Line 101: return { price: prev, n: nMax, trail }
capReturn(prv, nMax, trl) == [price |-> prv, n |-> nMax, trail |-> trl]

(***************************************************************************)
(* impliedVolatility                                                       *)
(***************************************************************************)

\* Line 104: volLow = 1e-6, volHigh = 5, tol = 1e-6, maxIter = 100.
DefaultVolLow == 100
DefaultVolHigh == Num(5)
DefaultTol == 100
DefaultMaxIter == 100

\* Lines 108-118, 119-129 and 136-146: the pricer at volatility sig.
ivPrice(P, sig) ==
    binomialOptionPricing(P.S, P.K, P.T, P.r, sig, P.n,
                          P.option_type, P.exercise_type, P.q)

\* Line 130: priceLow <= marketPrice && marketPrice <= priceHigh
bracketed(pl, mp, ph) == pl <= mp /\ mp <= ph

\* Lines 135 and 151: 0.5 * (low + high)
midpoint(lo, hi) == Mul(Scale \div 2, lo + hi)

\* Line 147: Math.abs(priceMid - marketPrice) <= tol
withinTol(priceMid, mp, tol) == Abs(priceMid - mp) <= tol


(***************************************************************************)
(* greeks                                                                  *)
(***************************************************************************)

\* Line 155: the floor 1e-4 of the spot step.
MinStepS == 10000
\* Line 156: the floor 1e-4 of the time step.
MinStepT == 10000
\* Line 204: the floor 1e-8 of the shortened expiry.
MinExpiry == 1

\* An argument left at its default null is <<>>, a given one is <<value>>.
Null == <<>>

\* Line 155: dS ?? Math.max(0.01 * params.S, 1e-4)
spotStep(P, dS) ==
    IF dS = Null THEN Max(Mul(Scale \div 100, P.S), MinStepS) ELSE dS[1]

\* Line 156: dT ?? Math.max(1e-4, 1e-3 * params.T)
timeStep(P, dT) ==
    IF dT = Null THEN Max(MinStepT, Mul(Scale \div 1000, P.T)) ELSE dT[1]

\* Lines 157-167, 168-178, 179-189, 193-203, 204-214: the pricer at spot S
\* and expiry T, every other parameter unchanged.
greeksPrice(P, S, T) ==
    binomialOptionPricing(S, P.K, T, P.r, P.sigma, P.n,
                          P.option_type, P.exercise_type, P.q)

\* Line 204: Math.max(params.T - stepT, 1e-8)
shortenedExpiry(P, sT) == Max(P.T - sT, MinExpiry)

\* Line 190: (up - down) / (2 * stepS)
deltaOf(u, d, sS) == Div(u - d, Mul(Num(2), sS))

\* Line 191: (up - 2 * base + down) / (stepS ** 2)
gammaOf(u, b, d, sS) == Div(u - Mul(Num(2), b) + d, Pow(sS, 2))

\* Line 215: (upT - downT) / (2 * stepT)
thetaOf(uT, dT, sT) == Div(uT - dT, Mul(Num(2), sT))
(***************************************************************************)
(* State                                                                   *)
(***************************************************************************)

VARIABLES
    params,        \* the Pricing Parameters record of the request
    knobs,         \* the tuning arguments of the operation under way
    pc,            \* where the operation under way stands
    ret,           \* what it returned or threw
    calls,         \* the pricer calls made so far, in order
    priced,        \* what the last pricer call returned or threw
    tree,          \* binomialOptionPricing: dt-derived constants (lines 40-45)
    optionValues,  \* binomialOptionPricing: the single array
    i,             \* loop index i (binomialOptionPricing, impliedVolatility)
    j,             \* loop index j (binomialOptionPricing)
    n,             \* priceWithConvergence: n
    prev,          \* priceWithConvergence: prev
    trail,         \* priceWithConvergence: trail
    marketPrice,   \* impliedVolatility: marketPrice
    low,           \* impliedVolatility: low
    high,          \* impliedVolatility: high
    priceLow,      \* impliedVolatility: priceLow
    priceHigh,     \* impliedVolatility: priceHigh
    mid,           \* impliedVolatility: mid
    stepS,         \* greeks: stepS
    stepT,         \* greeks: stepT
    base,          \* greeks: base
    up,            \* greeks: up
    down,          \* greeks: down
    delta,         \* greeks: delta
    gamma,         \* greeks: gamma
    upT            \* greeks: upT

pricerVars == <<tree, optionValues, i, j>>
convVars == <<n, prev, trail>>
ivVars == <<marketPrice, low, high, priceLow, priceHigh, mid>>
greekVars == <<stepS, stepT, base, up, down, delta, gamma, upT>>
vars ==
    <<params, knobs, pc, ret, calls, priced, pricerVars, convVars, ivVars, greekVars>>

\* Not yet set.
Unset == "unset"

\* A call that has not been made yet.
Pending == [err |-> "pending", val |-> 0]

\* Largest number of tree steps the inputs use.
MaxN == 3

\* k / 10000 as a number.
Bp(k) == k * Limb

Styles == {"european", "american"}
Kinds == {"call", "put"}

Record(S, K, T, r, sigma, q, nn, kind, style) ==
    [S |-> S, K |-> K, T |-> T, r |-> r, sigma |-> sigma, q |-> q, n |-> nn,
     option_type |-> kind, exercise_type |-> style]

IdlePricer == tree = Unset /\ optionValues = Unset /\ i = 0 /\ j = 0
IdleConv == n = 0 /\ prev = 0 /\ trail = <<>>
IdleIV ==
    marketPrice = 0 /\ low = 0 /\ high = 0 /\ priceLow = 0 /\ priceHigh = 0 /\ mid = 0
IdleGreeks ==
    /\ stepS = 0 /\ stepT = 0 /\ base = 0 /\ up = 0 /\ down = 0
    /\ delta = 0 /\ gamma = 0 /\ upT = 0

(***************************************************************************)
(* validateInputs applied to candidate parameter sets                      *)
(***************************************************************************)

ValidateInputs ==
    { Record(S, K, T, Bp(500), sigma, q, nn, kind, style) :
        S \in {-Scale, 0, Scale}, K \in {0, Scale}, T \in {-Bp(100), 0, Scale},
        sigma \in {-Bp(1000), 0, Bp(2000)}, q \in {-Bp(100), 0, Bp(200)},
        nn \in {-Scale, 0, Scale \div 2, Scale, Bp(15000), Num(MaxN)},
        kind \in Kinds \cup {"straddle"}, style \in Styles \cup {"bermudan"} }

InitValidate ==
    /\ params \in ValidateInputs
    /\ knobs = Unset /\ pc = "validate" /\ ret = Unset /\ calls = <<>>
    /\ IdlePricer /\ IdleConv /\ IdleIV /\ priced = Pending
    /\ IdleGreeks

\* validateInputs(params)
Validate ==
    /\ pc = "validate"
    /\ ret' = validateInputs(params)
    /\ pc' = "done"
    /\ UNCHANGED <<params, knobs, calls, pricerVars, convVars, ivVars, priced, greekVars>>

NextValidate == Validate

SpecValidate == InitValidate /\ [][NextValidate]_vars

\* The rules of the validator as the specification lists them, in its order.
RuleViolated(P, k) ==
    CASE k = 1 -> P.S <= 0 \/ P.K <= 0
      [] k = 2 -> P.T <= 0
      [] k = 3 -> P.n <= 0 \/ ~IsInteger(P.n)
      [] k = 4 -> P.sigma < 0
      [] k = 5 -> P.q < 0
      [] k = 6 -> P.option_type \notin {"call", "put"}
      [] k = 7 -> P.exercise_type \notin {"european", "american"}

RuleError == <<ErrSK, ErrT, ErrN, ErrSigma, ErrQ, ErrOption, ErrExercise>>

\* C7: validateInputs fails whenever a rule of the list is violated, with the
\* error of the first violated rule in the fixed order, and returns (leaving
\* every other variable as it was) exactly when no rule is violated.
C7_FirstViolatedRule ==
    pc = "done" =>
        /\ \A k \in 1..7 :
             (RuleViolated(params, k) /\ \A m \in 1..(k - 1) : ~RuleViolated(params, m))
                => ret = RuleError[k]
        /\ (ret = None) <=> (\A k \in 1..7 : ~RuleViolated(params, k))
        /\ knobs = Unset /\ calls = <<>> /\ IdlePricer /\ IdleConv /\ IdleIV /\ priced = Pending

\* A candidate violating two rules (sigma and q) was rejected for the first.
C7_Witness ==
    /\ pc = "done" /\ ret = ErrSigma
    /\ RuleViolated(params, 4) /\ RuleViolated(params, 5) /\ RuleViolated(params, 7)

(***************************************************************************)
(* The two-dimensional triangular lattice of the specification (section 3, *)
(* section 4.2 step 5): node (ii, jj) from the two nodes of layer ii + 1,  *)
(* every layer kept.                                                       *)
(***************************************************************************)

RECURSIVE latticeValue(_, _, _, _)
latticeValue(c, style, ii, jj) ==
    IF ii = c.count
    THEN payoff(c.optionType, assetPrice(c.S, c.u, c.d, c.count, jj), c.K)
    ELSE LET above == latticeValue(c, style, ii + 1, jj + 1)
             below == latticeValue(c, style, ii + 1, jj)
             continuation == Mul(c.discount, Mul(c.p, above) + Mul(Scale - c.p, below))
             intrinsic == payoff(c.optionType, assetPrice(c.S, c.u, c.d, ii, jj), c.K)
         IN  IF style = "american" THEN Max(continuation, intrinsic)
                                   ELSE continuation

(***************************************************************************)
(* binomialOptionPricing under both exercise styles                        *)
(***************************************************************************)

StyleInputs ==
    { Record(S, K, Scale, r, sigma, q, Num(nn), kind, "european") :
        S \in {Scale, Num(2)}, K \in {Scale, Bp(15000)},
        r \in {-Bp(100), 0, Bp(500), Bp(5000)}, sigma \in {0, Bp(2000), Bp(5000)},
        q \in {0, Bp(200), Bp(1000)}, nn \in 1..MaxN, kind \in Kinds }

InitStyles ==
    /\ params \in StyleInputs
    /\ knobs = Unset /\ pc = "styles" /\ calls = <<>>
    /\ ret = [american |-> Pending, european |-> Pending]
    /\ IdlePricer /\ IdleConv /\ IdleIV /\ priced = Pending
    /\ IdleGreeks

\* binomialOptionPricing(S, K, T, r, sigma, n, option_type, style, q)
PriceStyle(style) ==
    /\ pc = "styles"
    /\ ret[style] = Pending
    /\ ret' = [ret EXCEPT ![style] =
                 binomialOptionPricing(params.S, params.K, params.T, params.r,
                     params.sigma, params.n, params.option_type, style, params.q)]
    /\ calls' = Append(calls, style)
    /\ UNCHANGED <<params, knobs, pc, pricerVars, convVars, ivVars, priced, greekVars>>

PriceAmerican == PriceStyle("american")

PriceEuropean == PriceStyle("european")

NextStyles == PriceAmerican \/ PriceEuropean

SpecStyles == InitStyles /\ [][NextStyles]_vars

BothPriced ==
    /\ pc = "styles"
        /\ ret.american.err = None /\ ret.european.err = None

\* The tree of params (its constants do not depend on the exercise style).
TreeOf(P) ==
    buildTree(P.S, P.K, P.T, P.r, P.sigma, P.n, P.option_type, P.exercise_type, P.q).val

\* C1: for parameters that price without error under both styles, the
\* american value is at least the european value, and the european value is
\* the root of the lattice that uses the continuation value alone at every
\* node.
C1_AmericanAtLeastEuropean ==
    BothPriced =>
        /\ ret.american.val >= ret.european.val
        /\ ret.european.val = latticeValue(TreeOf(params), "european", 0, 0)

\* Early exercise mattered: a put that is worth strictly more as american.
C1_Witness ==
    /\ BothPriced
    /\ params.option_type = "put"
    /\ params.n >= Num(2)
    /\ ret.american.val - ret.european.val > Bp(10)
    /\ ret.european.val > 0

(***************************************************************************)
(* binomialOptionPricing, one array store at a time                        *)
(***************************************************************************)

PriceInputs ==
    { Record(S, K, T, r, sigma, Bp(200), Num(nn), kind, style) :
        S \in {0, Scale, Num(2)}, K \in {Bp(15000)}, T \in {Scale},
        r \in {Bp(500), Bp(5000)}, sigma \in {0, Bp(2000), Bp(5000)},
        nn \in 1..MaxN, kind \in Kinds, style \in Styles }

InitPrice ==
    /\ params \in PriceInputs
    /\ knobs = Unset /\ pc = "price" /\ ret = Pending /\ calls = <<>>
    /\ IdlePricer /\ IdleConv /\ IdleIV /\ priced = Pending
    /\ IdleGreeks

\* Line 39: validateInputs throws.
PriceInvalid ==
    /\ pc = "price"
    /\ validateInputs(params) # None
    /\ ret' = Throw(validateInputs(params))
    /\ pc' = "failed"
    /\ UNCHANGED <<params, knobs, calls, pricerVars, convVars, ivVars, priced, greekVars>>

\* Lines 44-45: the tree is degenerate or the probability out of bounds.
PriceNoTree ==
    /\ pc = "price"
    /\ validateInputs(params) = None
    /\ LET t == buildTree(params.S, params.K, params.T, params.r, params.sigma,
                          params.n, params.option_type, params.exercise_type, params.q)
       IN  /\ t.err # None
           /\ ret' = t
    /\ pc' = "failed"
    /\ UNCHANGED <<params, knobs, calls, pricerVars, convVars, ivVars, priced, greekVars>>

\* Lines 40-52: the terminal layer, and i = n - 1.
PriceTerminal ==
    /\ pc = "price"
    /\ validateInputs(params) = None
    /\ LET t == buildTree(params.S, params.K, params.T, params.r, params.sigma,
                          params.n, params.option_type, params.exercise_type, params.q)
       IN  /\ t.err = None
           /\ tree' = t.val
           /\ optionValues' = terminalValues(t.val)
           /\ i' = t.val.count - 1
    /\ pc' = "outer"
    /\ UNCHANGED <<params, knobs, ret, calls, j, convVars, ivVars, priced, greekVars>>

\* Lines 52-53: i >= 0, j = 0.
OuterEnter ==
    /\ pc = "outer"
    /\ i >= 0
    /\ j' = 0
    /\ pc' = "inner"
    /\ UNCHANGED <<params, knobs, ret, calls, tree, optionValues, i, convVars, ivVars, priced,
                   greekVars>>

\* Lines 53-62: j <= i, one node.
InnerStep ==
    /\ pc = "inner"
    /\ j <= i
    /\ optionValues' = storeNode(tree, optionValues, i, j)
    /\ j' = j + 1
    /\ UNCHANGED <<params, knobs, pc, ret, calls, tree, i, convVars, ivVars, priced,
                   greekVars>>

\* Lines 52-53: j > i, i -= 1.
InnerExit ==
    /\ pc = "inner"
    /\ j > i
    /\ i' = i - 1
    /\ pc' = "outer"
    /\ UNCHANGED <<params, knobs, ret, calls, tree, optionValues, j, convVars, ivVars, priced,
                   greekVars>>

\* Line 64: i < 0, return optionValues[0].
PriceReturn ==
    /\ pc = "outer"
    /\ i < 0
    /\ ret' = Ok(optionValues[0])
    /\ pc' = "done"
    /\ UNCHANGED <<params, knobs, calls, pricerVars, convVars, ivVars, priced, greekVars>>

NextPrice ==
    \/ PriceInvalid
    \/ PriceNoTree
    \/ PriceTerminal
    \/ OuterEnter
    \/ InnerStep
    \/ InnerExit
    \/ PriceReturn

SpecPrice == InitPrice /\ [][NextPrice]_vars

\* C8: whenever node (i, j) is about to be computed, optionValues[j] and
\* optionValues[j + 1] hold the layer-(i + 1) values of the two-dimensional
\* lattice at up-counts j and j + 1, and the value returned is the lattice
\* root; the step-by-step run returns what binomialOptionPricing returns.
C8_InPlaceIsLattice ==
    /\ (pc = "inner" /\ j <= i) =>
          /\ optionValues[j] = latticeValue(tree, tree.exerciseType, i + 1, j)
          /\ optionValues[j + 1] = latticeValue(tree, tree.exerciseType, i + 1, j + 1)
    /\ pc = "done" =>
          /\ ret.val = latticeValue(tree, tree.exerciseType, 0, 0)
          /\ ret = priceOf(params)
    /\ pc = "failed" => ret = priceOf(params)

\* A node in the middle of a layer above the last one: slot j - 1 already
\* holds a layer-i value while slots j and j + 1 are read.
C8_Witness ==
    /\ pc = "inner" /\ tree.count = MaxN
    /\ i = tree.count - 2 /\ j = i /\ j >= 1
    /\ tree.exerciseType = "american"
    /\ optionValues[j - 1] # latticeValue(tree, tree.exerciseType, i + 1, j - 1)

(***************************************************************************)
(* priceWithConvergence, one pricer call at a time                         *)
(***************************************************************************)

ConvParams ==
    { Record(Scale, K, Scale, r, sigma, Bp(200), Scale, kind, style) :
        K \in {Scale, Num(3)}, r \in {Bp(500)}, sigma \in {0, Bp(2000)},
        kind \in {"call"}, style \in Styles }
    \cup { Record(Scale, Bp(15000), Scale, Bp(500), Bp(5000), Bp(200), Scale,
                  "put", "american") }

ConvKnobs ==
    { [nStart |-> Num(a), nMax |-> Num(b), tol |-> t, step |-> st] :
        a \in 1..2, b \in 1..(MaxN + 2), t \in {0, Bp(50), Bp(200)},
        st \in {Scale \div 2, Scale, Num(2)} }

InitConv ==
    /\ params \in ConvParams
    /\ knobs \in ConvKnobs
    /\ pc = "conv" /\ ret = Pending /\ calls = <<>> /\ priced = Pending
    /\ IdlePricer /\ IdleConv /\ IdleIV
    /\ IdleGreeks

\* Line 68: let n = nStart.
ConvBegin ==
    /\ pc = "conv"
    /\ n' = knobs.nStart
    /\ pc' = "first"
    /\ UNCHANGED <<params, knobs, ret, calls, priced, pricerVars, prev, trail, ivVars,
                   greekVars>>

\* Lines 69-79, and lines 82-93 when n <= nMax: the pricer is called at n.
ConvCall ==
    /\ \/ pc = "first"
       \/ pc = "loop" /\ n <= knobs.nMax
    /\ priced' = convPrice(params, n)
    /\ calls' = Append(calls, n)
    /\ pc' = IF pc = "first" THEN "pricedFirst" ELSE "pricedNext"
    /\ UNCHANGED <<params, knobs, ret, pricerVars, convVars, ivVars, greekVars>>

\* The pricer call threw: the error propagates.
ConvThrow ==
    /\ pc \in {"pricedFirst", "pricedNext"}
    /\ priced.err # None
    /\ ret' = priced
    /\ pc' = "failed"
    /\ UNCHANGED <<params, knobs, calls, priced, pricerVars, convVars, ivVars, greekVars>>

\* Lines 69-81: prev = price(nStart), trail = [{n, price: prev}], n += step.
ConvFirst ==
    /\ pc = "pricedFirst"
    /\ priced.err = None
    /\ prev' = priced.val
    /\ trail' = <<[n |-> n, price |-> priced.val]>>
    /\ n' = nextN(n, knobs.step)
    /\ pc' = "loop"
    /\ UNCHANGED <<params, knobs, ret, calls, priced, pricerVars, ivVars, greekVars>>

\* Lines 94-97: the price is pushed and is within tol of prev: return.
ConvConverged ==
    /\ pc = "pricedNext"
    /\ priced.err = None
    /\ converged(priced.val, prev, knobs.tol)
    /\ trail' = Append(trail, [n |-> n, price |-> priced.val])
    /\ ret' = Ok(convergedReturn(priced.val, prev, n, trail'))
    /\ pc' = "done"
    /\ UNCHANGED <<params, knobs, calls, priced, pricerVars, n, prev, ivVars, greekVars>>

\* Lines 94-99: the price is pushed, prev = curr, n += step.
ConvContinue ==
    /\ pc = "pricedNext"
    /\ priced.err = None
    /\ ~converged(priced.val, prev, knobs.tol)
    /\ trail' = Append(trail, [n |-> n, price |-> priced.val])
    /\ prev' = priced.val
    /\ n' = nextN(n, knobs.step)
    /\ pc' = "loop"
    /\ UNCHANGED <<params, knobs, ret, calls, priced, pricerVars, ivVars, greekVars>>

\* Lines 82 and 101: n > nMax: return { price: prev, n: nMax, trail }.
ConvCap ==
    /\ pc = "loop"
    /\ ~(n <= knobs.nMax)
    /\ ret' = Ok(capReturn(prev, knobs.nMax, trail))
    /\ pc' = "done"
    /\ UNCHANGED <<params, knobs, calls, priced, pricerVars, convVars, ivVars, greekVars>>

NextConv ==
    \/ ConvBegin
    \/ ConvCall
    \/ ConvThrow
    \/ ConvFirst
    \/ ConvConverged
    \/ ConvContinue
    \/ ConvCap

SpecConv == InitConv /\ [][NextConv]_vars

\* The k-th step count of a run, nStart + k * step, and the pricer there.
StepCount(k) == knobs.nStart + k * knobs.step

PriceAtStep(k) == convPrice(params, StepCount(k))

\* The first k >= from with StepCount(k) <= nMax and
\* |price(StepCount(k)) - price(StepCount(k - 1))| <= tol, every pricer call up
\* to there returning; 0 when there is none.
RECURSIVE FirstConverged(_)
FirstConverged(from) ==
    IF StepCount(from) > knobs.nMax \/ PriceAtStep(from).err # None THEN 0
    ELSE IF Abs(PriceAtStep(from).val - PriceAtStep(from - 1).val) <= knobs.tol
         THEN from
         ELSE FirstConverged(from + 1)

ConvergesAt == IF PriceAtStep(0).err # None THEN 0 ELSE FirstConverged(1)

Last(seq) == seq[Len(seq)]

\* C3: when there is a first step count n = nStart + k * step <= nMax, k >= 1,
\* with |price(n) - price(n - step)| <= tol, the run stops there: no pricer
\* call is ever made at a larger step count, and it returns price(n), that n,
\* and the trail of exactly the entries nStart, nStart + step, ..., n.
C3_StopsAtFirstConvergence ==
    ConvergesAt > 0 =>
        /\ pc # "failed"
        /\ Len(calls) <= ConvergesAt + 1
        /\ \A m \in 1..Len(calls) : calls[m] = StepCount(m - 1)
        /\ pc = "loop" => Len(calls) <= ConvergesAt
        /\ pc = "done" =>
             /\ ret.err = None
             /\ ret.val.price = PriceAtStep(ConvergesAt).val
             /\ ret.val.n = StepCount(ConvergesAt)
             /\ ret.val.trail =
                  [m \in 1..(ConvergesAt + 1) |->
                     [n |-> StepCount(m - 1), price |-> PriceAtStep(m - 1).val]]

\* A run that converged at its third pricer call, not at its second.
C3_Witness ==
    /\ pc = "done" /\ ConvergesAt = 2
    /\ Len(ret.val.trail) = 3
    /\ StepCount(3) <= knobs.nMax

\* C4: the trail of a call that returned starts at nStart, each later entry's
\* n is the previous entry's n plus step and is at most nMax, and the entries
\* are in the order of the pricer calls.
C4_TrailSteps ==
    pc = "done" =>
        LET t == ret.val.trail
        IN  /\ Len(t) >= 1
            /\ t[1].n = knobs.nStart
            /\ \A m \in 2..Len(t) : t[m].n = t[m - 1].n + knobs.step /\ t[m].n <= knobs.nMax
            /\ [m \in 1..Len(t) |-> t[m].n] = calls
            /\ \A m \in 1..Len(t) : t[m].price = convPrice(params, t[m].n).val

\* A returned trail of three entries or more with a step other than 1.
C4_Witness ==
    /\ pc = "done" /\ Len(ret.val.trail) >= 3 /\ knobs.step = Num(2)

\* C5 as claimed: every call that returns has made at least two pricer calls,
\* at nStart and at nStart + step, and its trail has at least two entries.
C5_AtLeastTwoCalls ==
    pc = "done" =>
        /\ Len(calls) >= 2
        /\ calls[1] = knobs.nStart
        /\ calls[2] = knobs.nStart + knobs.step
        /\ Len(ret.val.trail) >= 2

\* C10 as claimed: the returned (n, price) is the last entry of the trail.
C10_ReturnIsLastEntry ==
    pc = "done" =>
        /\ ret.val.n = Last(ret.val.trail).n
        /\ ret.val.price = Last(ret.val.trail).price

\* The last two entries of trl are within tol of each other.
EndsConverged(trl) ==
    /\ Len(trl) >= 2
    /\ Abs(trl[Len(trl)].price - trl[Len(trl) - 1].price) <= knobs.tol

\* C10 amended: the returned price is the price of the last trail entry; the
\* returned n is that entry's n when the run stopped on convergence, and is
\* nMax when the cap was reached, the last entry's n then being the last step
\* count nStart + k * step (k >= 0) whose successor exceeds nMax.
C10_ReturnedPriceIsLastEntry ==
    pc = "done" =>
        LET t == ret.val.trail
        IN  /\ t = trail
            /\ ret.val.price = Last(t).price
            /\ ret.val.price = convPrice(params, Last(t).n).val
            /\ IF EndsConverged(t)
               THEN ret.val.n = Last(t).n
               ELSE ret.val.n = knobs.nMax /\ Last(t).n + knobs.step > knobs.nMax

\* The cap was reached at a step count below nMax, after two pricer calls
\* or more.
C10_Witness ==
    /\ pc = "done" /\ ~EndsConverged(ret.val.trail)
    /\ Len(ret.val.trail) >= 2
    /\ Last(ret.val.trail).n < ret.val.n

(***************************************************************************)
(* impliedVolatility, one pricer call at a time                            *)
(***************************************************************************)

\* params.sigma is the volatility the target price was made with.
IVParams ==
    { Record(S, Scale, Bp(100), r, sigma, Bp(200), Num(nn), kind, "european") :
        S \in {Scale, Num(2)}, r \in {Bp(200), Bp(500)},
        sigma \in {Bp(2000), Bp(3000), Bp(11000)}, nn \in {1, MaxN}, kind \in Kinds }

DefaultIVKnobs ==
    [volLow |-> DefaultVolLow, volHigh |-> DefaultVolHigh,
     tol |-> DefaultTol, maxIter |-> DefaultMaxIter]

\* Targets that are not the price of any volatility of the bracket.
GivenTargets == {-Bp(100), 0, 1, Bp(5000)}

\* The price at params.sigma, when the pricer returns one.
RoundTripTargets(P) == IF priceOf(P).err = None THEN {priceOf(P).val} ELSE {}

\* A call with fewer iterations than the default allows.
ShortIVKnobs == [DefaultIVKnobs EXCEPT !.maxIter = MaxN]

InitIV ==
    /\ params \in IVParams
    /\ knobs \in {DefaultIVKnobs, ShortIVKnobs}
    /\ marketPrice \in GivenTargets \cup RoundTripTargets(params)
    /\ pc = "iv" /\ ret = Pending /\ calls = <<>> /\ priced = Pending
    /\ low = 0 /\ high = 0 /\ priceLow = 0 /\ priceHigh = 0 /\ mid = 0
    /\ IdlePricer /\ IdleConv
    /\ IdleGreeks

\* Line 105: marketPrice is not positive.
IVInvalidTarget ==
    /\ pc = "iv"
    /\ ~(marketPrice > 0)
    /\ ret' = Throw(ErrTarget)
    /\ pc' = "failed"
    /\ UNCHANGED <<params, knobs, calls, priced, pricerVars, convVars, ivVars, greekVars>>

\* Lines 105-107: low = volLow, high = volHigh.
IVBegin ==
    /\ pc = "iv"
    /\ marketPrice > 0
    /\ low' = knobs.volLow
    /\ high' = knobs.volHigh
    /\ pc' = "low"
    /\ UNCHANGED <<params, knobs, ret, calls, priced, pricerVars, convVars,
                   marketPrice, priceLow, priceHigh, mid,
                   greekVars>>

\* Lines 134-135: i < maxIter, mid = 0.5 * (low + high).
IVMid ==
    /\ pc = "bisect"
    /\ i < knobs.maxIter
    /\ mid' = midpoint(low, high)
    /\ pc' = "mid"
    /\ UNCHANGED <<params, knobs, ret, calls, priced, pricerVars, convVars,
                   marketPrice, low, high, priceLow, priceHigh,
                   greekVars>>

\* The volatility of the pricer call the solver is about to make.
NextVol ==
    CASE pc = "low" -> low
      [] pc = "high" -> high
      [] pc = "mid" -> mid

\* Lines 108-118, 119-129, 136-146: the pricer is called.
IVCall ==
    /\ pc \in {"low", "high", "mid"}
    /\ priced' = ivPrice(params, NextVol)
    /\ calls' = Append(calls, NextVol)
    /\ pc' = CASE pc = "low" -> "pricedLow"
               [] pc = "high" -> "pricedHigh"
               [] pc = "mid" -> "pricedMid"
    /\ UNCHANGED <<params, knobs, ret, pricerVars, convVars, ivVars, greekVars>>

\* The pricer call threw: the error propagates.
IVThrow ==
    /\ pc \in {"pricedLow", "pricedHigh", "pricedMid"}
    /\ priced.err # None
    /\ ret' = priced
    /\ pc' = "failed"
    /\ UNCHANGED <<params, knobs, calls, priced, pricerVars, convVars, ivVars, greekVars>>

\* Line 108: priceLow.
IVPriceLow ==
    /\ pc = "pricedLow"
    /\ priced.err = None
    /\ priceLow' = priced.val
    /\ pc' = "high"
    /\ UNCHANGED <<params, knobs, ret, calls, priced, pricerVars, convVars,
                   marketPrice, low, high, priceHigh, mid,
                   greekVars>>

\* Lines 119-132: priceHigh, and the target is not bracketed.
IVNotBracketed ==
    /\ pc = "pricedHigh"
    /\ priced.err = None
    /\ ~bracketed(priceLow, marketPrice, priced.val)
    /\ priceHigh' = priced.val
    /\ ret' = Throw(ErrBracket)
    /\ pc' = "failed"
    /\ UNCHANGED <<params, knobs, calls, priced, pricerVars, convVars,
                   marketPrice, low, high, priceLow, mid,
                   greekVars>>

\* Lines 119-134: priceHigh, the target is bracketed, i = 0.
IVBracketed ==
    /\ pc = "pricedHigh"
    /\ priced.err = None
    /\ bracketed(priceLow, marketPrice, priced.val)
    /\ priceHigh' = priced.val
    /\ i' = 0
    /\ pc' = "bisect"
    /\ UNCHANGED <<params, knobs, ret, calls, priced, tree, optionValues, j, convVars,
                   marketPrice, low, high, priceLow, mid,
                   greekVars>>

\* Line 147: the price at mid is within tol of the target: return mid.
IVFound ==
    /\ pc = "pricedMid"
    /\ priced.err = None
    /\ withinTol(priced.val, marketPrice, knobs.tol)
    /\ ret' = Ok(mid)
    /\ pc' = "done"
    /\ UNCHANGED <<params, knobs, calls, priced, pricerVars, convVars, ivVars, greekVars>>

\* Line 148: the price at mid is below the target: low = mid, i += 1.
IVRaiseLow ==
    /\ pc = "pricedMid"
    /\ priced.err = None
    /\ ~withinTol(priced.val, marketPrice, knobs.tol)
    /\ priced.val < marketPrice
    /\ low' = mid
    /\ i' = i + 1
    /\ pc' = "bisect"
    /\ UNCHANGED <<params, knobs, ret, calls, priced, tree, optionValues, j, convVars,
                   marketPrice, high, priceLow, priceHigh, mid,
                   greekVars>>

\* Line 149: the price at mid is at or above the target: high = mid, i += 1.
IVLowerHigh ==
    /\ pc = "pricedMid"
    /\ priced.err = None
    /\ ~withinTol(priced.val, marketPrice, knobs.tol)
    /\ ~(priced.val < marketPrice)
    /\ high' = mid
    /\ i' = i + 1
    /\ pc' = "bisect"
    /\ UNCHANGED <<params, knobs, ret, calls, priced, tree, optionValues, j, convVars,
                   marketPrice, low, priceLow, priceHigh, mid,
                   greekVars>>

\* Lines 134 and 151: i reached maxIter: return 0.5 * (low + high).
IVExhausted ==
    /\ pc = "bisect"
    /\ ~(i < knobs.maxIter)
    /\ ret' = Ok(midpoint(low, high))
    /\ pc' = "done"
    /\ UNCHANGED <<params, knobs, calls, priced, pricerVars, convVars, ivVars, greekVars>>

NextIV ==
    \/ IVInvalidTarget
    \/ IVBegin
    \/ IVMid
    \/ IVCall
    \/ IVThrow
    \/ IVPriceLow
    \/ IVNotBracketed
    \/ IVBracketed
    \/ IVFound
    \/ IVRaiseLow
    \/ IVLowerHigh
    \/ IVExhausted

SpecIV == InitIV /\ [][NextIV]_vars

IVFinished == pc \in {"done", "failed"}

\* The target is the price at params.sigma, a volatility strictly inside
\* (volLow, volHigh).
IsRoundTrip ==
    /\ knobs = DefaultIVKnobs
    /\ validateInputs(params) = None
    /\ priceOf(params).err = None
    /\ marketPrice = priceOf(params).val
    /\ knobs.volLow < params.sigma /\ params.sigma < knobs.volHigh

\* C2 as claimed: impliedVolatility of the price at marketSigma returns a
\* volatility within tol of marketSigma.
C2_RoundTrip ==
    (IVFinished /\ IsRoundTrip) =>
        /\ pc = "done"
        /\ ret.err = None
        /\ Abs(ret.val - params.sigma) <= knobs.tol

\* C6 as claimed: a target <= 0 fails with InvalidTarget before any pricer
\* call; a target > 0 is priced at volLow and then at volHigh and fails with
\* NotBracketed exactly when it lies outside [price(volLow), price(volHigh)];
\* no midpoint is priced unless the bracket check has passed.
C6_TargetAndBracket ==
    /\ (marketPrice <= 0 /\ pc # "iv") =>
          pc = "failed" /\ ret.err = ErrTarget /\ calls = <<>>
    /\ (marketPrice > 0 /\ IVFinished) =>
          /\ Len(calls) >= 2
          /\ calls[1] = knobs.volLow
          /\ calls[2] = knobs.volHigh
          /\ (ret.err = ErrBracket) <=>
                ~(/\ ivPrice(params, knobs.volLow).val <= marketPrice
                  /\ marketPrice <= ivPrice(params, knobs.volHigh).val)
    /\ Len(calls) > 2 =>
          /\ ivPrice(params, knobs.volLow).val <= marketPrice
          /\ marketPrice <= ivPrice(params, knobs.volHigh).val

(***************************************************************************)
(* greeks: five pricer calls and three central differences                 *)
(***************************************************************************)

\* Valid parameters with spot prices from half the floor of the spot step
\* (5e-5) to 1 and expiries 1e-4 and 0.01; the expiry 1e-4 is priced with one step so that dt = 1e-8 stays a
\* number of the model.
GreeksParams ==
    { Record(S, K, T, Bp(200), Bp(2000), Bp(200), Num(nn), kind, style) :
        S \in {MinStepS \div 2, MinStepS, Bp(50), Scale}, K \in {Bp(50), Scale},
        T \in {Bp(1), Bp(100)}, nn \in {1}, kind \in Kinds, style \in Styles }
    \cup
    { Record(S, Scale, Bp(100), Bp(200), Bp(2000), Bp(200), Num(MaxN), kind, "american") :
        S \in {MinStepS \div 2, Scale}, kind \in Kinds }

\* greeks(params): both steps at their defaults.
DefaultSteps == [dS |-> Null, dT |-> Null]

\* greeks(params, 0.01, 0.001)
GivenSteps == [dS |-> <<Bp(100)>>, dT |-> <<Bp(10)>>]

InitGreeks ==
    /\ params \in GreeksParams
    /\ knobs \in {DefaultSteps, GivenSteps}
    /\ pc = "greeks" /\ ret = Pending /\ calls = <<>> /\ priced = Pending
    /\ IdlePricer /\ IdleConv /\ IdleIV /\ IdleGreeks

\* Lines 155-156: stepS and stepT.
GreeksBegin ==
    /\ pc = "greeks"
    /\ stepS' = spotStep(params, knobs.dS)
    /\ stepT' = timeStep(params, knobs.dT)
    /\ pc' = "base"
    /\ UNCHANGED <<params, knobs, ret, calls, priced, pricerVars, convVars, ivVars,
                   base, up, down, delta, gamma, upT>>

\* The spot price and the expiry of the pricer call greeks is about to make.
GreeksArgs ==
    CASE pc = "base" -> <<params.S, params.T>>
      [] pc = "up" -> <<params.S + stepS, params.T>>
      [] pc = "down" -> <<params.S - stepS, params.T>>
      [] pc = "upT" -> <<params.S, params.T + stepT>>
      [] pc = "downT" -> <<params.S, shortenedExpiry(params, stepT)>>

\* Lines 157-167, 168-178, 179-189, 193-203, 204-214: the pricer is called.
GreeksCall ==
    /\ pc \in {"base", "up", "down", "upT", "downT"}
    /\ priced' = greeksPrice(params, GreeksArgs[1], GreeksArgs[2])
    /\ calls' = Append(calls, GreeksArgs)
    /\ pc' = CASE pc = "base" -> "pricedBase"
               [] pc = "up" -> "pricedUp"
               [] pc = "down" -> "pricedDown"
               [] pc = "upT" -> "pricedUpT"
               [] pc = "downT" -> "pricedDownT"
    /\ UNCHANGED <<params, knobs, ret, pricerVars, convVars, ivVars, greekVars>>

\* The pricer call threw: the error propagates.
GreeksThrow ==
    /\ pc \in {"pricedBase", "pricedUp", "pricedDown", "pricedUpT", "pricedDownT"}
    /\ priced.err # None
    /\ ret' = priced
    /\ pc' = "failed"
    /\ UNCHANGED <<params, knobs, calls, priced, pricerVars, convVars, ivVars,
                   greekVars>>

\* Line 157: base.
GreeksBase ==
    /\ pc = "pricedBase"
    /\ priced.err = None
    /\ base' = priced.val
    /\ pc' = "up"
    /\ UNCHANGED <<params, knobs, ret, calls, priced, pricerVars, convVars, ivVars,
                   stepS, stepT, up, down, delta, gamma, upT>>

\* Line 168: up.
GreeksUp ==
    /\ pc = "pricedUp"
    /\ priced.err = None
    /\ up' = priced.val
    /\ pc' = "down"
    /\ UNCHANGED <<params, knobs, ret, calls, priced, pricerVars, convVars, ivVars,
                   stepS, stepT, base, down, delta, gamma, upT>>

\* Lines 179-191: down, delta and gamma.
GreeksDown ==
    /\ pc = "pricedDown"
    /\ priced.err = None
    /\ down' = priced.val
    /\ delta' = deltaOf(up, priced.val, stepS)
    /\ gamma' = gammaOf(up, base, priced.val, stepS)
    /\ pc' = "upT"
    /\ UNCHANGED <<params, knobs, ret, calls, priced, pricerVars, convVars, ivVars,
                   stepS, stepT, base, up, upT>>

\* Line 193: upT.
GreeksUpT ==
    /\ pc = "pricedUpT"
    /\ priced.err = None
    /\ upT' = priced.val
    /\ pc' = "downT"
    /\ UNCHANGED <<params, knobs, ret, calls, priced, pricerVars, convVars, ivVars,
                   stepS, stepT, base, up, down, delta, gamma>>

\* Lines 204-217: downT, theta and the returned record.
GreeksReturn ==
    /\ pc = "pricedDownT"
    /\ priced.err = None
    /\ ret' = Ok([price |-> base, delta |-> delta, gamma |-> gamma,
                  theta |-> thetaOf(upT, priced.val, stepT)])
    /\ pc' = "done"
    /\ UNCHANGED <<params, knobs, calls, priced, pricerVars, convVars, ivVars,
                   greekVars>>

NextGreeks ==
    \/ GreeksBegin
    \/ GreeksCall
    \/ GreeksThrow
    \/ GreeksBase
    \/ GreeksUp
    \/ GreeksDown
    \/ GreeksUpT
    \/ GreeksReturn

SpecGreeks == InitGreeks /\ [][NextGreeks]_vars

\* C9 as claimed: for parameters that pass validateInputs and the default
\* steps, every pricer call of greeks receives a spot price > 0 and an
\* expiry > 0, and greeks never fails with an error of validateInputs.
C9_GreeksCallsValid ==
    (validateInputs(params) = None /\ knobs = DefaultSteps) =>
        /\ \A m \in 1..Len(calls) : calls[m][1] > 0 /\ calls[m][2] > 0
        /\ ret.err \notin InvalidParameter

(***************************************************************************)
(* The engine: one request, one operation                                  *)
(***************************************************************************)

Init ==
    \/ InitValidate
    \/ InitStyles
    \/ InitPrice
    \/ InitConv
    \/ InitIV
    \/ InitGreeks

Next ==
    \/ NextValidate
    \/ NextStyles
    \/ NextPrice
    \/ NextConv
    \/ NextIV
    \/ NextGreeks

Spec == Init /\ [][Next]_vars

====
